---- MODULE Spec2Model ----
(***************************************************************************)
(* One gateway shard (src/src/core/sharding/shard.ts) as a state machine.  *)
(*                                                                         *)
(* The shard runs on a JavaScript event loop.  A task (a socket event, a   *)
(* timer callback, a release of the connect gate, an API call) runs the    *)
(* synchronous part of its handler; every `await` parks the rest of the    *)
(* handler as a continuation in the microtask queue, and the queue is      *)
(* drained, in order, before the next task starts.  An action is one task: *)
(* the synchronous part and every continuation it leads to.                *)
(***************************************************************************)
EXTENDS Integers, Sequences, FiniteSets

\* ------------------------------------------------------------------ bounds
MaxStale == 1      \* replaced sockets that still have their handlers attached
MaxGate  == 1      \* connect() calls suspended on connectTimeout.wait()
MaxQueue == 1      \* entries of offlineSendQueue
\* the same where the user sends messages (SpecSend)
MaxStaleSend == 1
MaxQueueSend == 2
MaxSends     == 2  \* user messages parked at one time
\* the largest maxRequestsPerRateLimitTick tried besides the default (SpecCalc)
MaxRequests  == 6
\* two shards and their connect gates (SpecFleet)
MaxClock     == 3  \* the clock stops here
MaxCalls     == 3  \* connect() calls made in all

\* --------------------------------------------------------------- constants
NullSeq           == -1          \* resume_seq: null
Undefined         == "undefined" \* an unset optional field
ShardId           == 0           \* the id the shard is constructed with
DefaultInterval   == 30000
Shutdown          == 3000
ZombiedConnection == 3010

ResumableLossCodes == {1000, 4001, 4007, 4009}
TransientCodes     == {1001, 1006, ZombiedConnection, 4000, 4002, 4003, 4005, 4008}
FatalCodes         == {4004, 4014, 4012, 4013, 4010, 4011}
UnknownCodes       == {4999}
CloseCodes == {Shutdown} \cup ResumableLossCodes \cup TransientCodes
                \cup FatalCodes \cup UnknownCodes

\* what the gateway can put in a frame
Intervals  == {41250}            \* Hello.d.heartbeat_interval
SeqVals    == {1, 2}             \* Dispatch.s
SessionIds == {"sess"}           \* Ready.d.session_id
ResumeURLs == {"wss://resume"}   \* Ready.d.resume_gateway_url

\* a packet: op, s, t, and of d what the shard reads (i: heartbeat_interval,
\* d: the InvalidSession flag, sid and url: Ready's session_id and resume url)
HelloPackets    == [op : {"Hello"}, s : {NullSeq}, t : {"-"}, i : Intervals,
                    d : {FALSE}, sid : {"-"}, url : {"-"}]
PlainPackets    == [op : {"HeartbeatAck", "Heartbeat", "Reconnect"}, s : {NullSeq},
                    t : {"-"}, i : {0}, d : {FALSE}, sid : {"-"}, url : {"-"}]
InvalidPackets  == [op : {"InvalidSession"}, s : {NullSeq}, t : {"-"}, i : {0},
                    d : BOOLEAN, sid : {"-"}, url : {"-"}]
DispatchPackets == [op : {"Dispatch"}, s : SeqVals,
                    t : {"READY", "RESUMED", "MESSAGE_CREATE"}, i : {0}, d : {FALSE},
                    sid : SessionIds, url : ResumeURLs]
Packets == HelloPackets \cup PlainPackets \cup InvalidPackets \cup DispatchPackets
\* the packets of a gateway that follows the protocol's happy path
SendPackets == {p \in Packets : /\ p.op \in {"Hello", "HeartbeatAck", "Dispatch"}
                                /\ p.t # "MESSAGE_CREATE"
                                /\ p.s \in {NullSeq, 1}}
\* the codes the gateway closes a socket with, and one of each case of
\* handleClosed
ServerCodes == CloseCodes \ {Shutdown, ZombiedConnection}
SendCodes   == {1000, 1006, 4004, 4999}

\* options.ratelimitOptions: the default, one that leaves the bucket no
\* capacity, and one that leaves it a capacity of 2
DefaultRatelimit == [maxRequestsPerRateLimitTick |-> 120, rateLimitResetInterval |-> 60000]
NoBudget         == [maxRequestsPerRateLimitTick |-> 4, rateLimitResetInterval |-> 60000]
SmallBudget      == [maxRequestsPerRateLimitTick |-> 6, rateLimitResetInterval |-> 60000]

VARIABLES
  debug,            \* options.debug: the logger exists only when it is set
  data,             \* ShardData: resume_seq, session_id, resume_gateway_url
  heart,            \* ShardHeart: interval, ack, nodeInterval (a timer handle)
  timers,           \* the interval timers that are armed: records [id, interval]
  websocket,        \* this.websocket: [readyState, code], readyState "null" for null
  stale,            \* replaced sockets whose handlers still run: bag kind -> count
  gate,             \* number of connect() calls waiting in connectTimeout
  called,           \* history, kept where scope.history is set: for each of
                    \* them, in call order, was the socket open at the call
  hellos,           \* history, kept where scope.history is set: the Hellos
                    \* this.websocket delivered since it opened (0, 1, or 2
                    \* for more)
  zombied,          \* history, kept where scope.history is set: "closed" once
                    \* close(3010) closed this.websocket, "after" once a
                    \* socket has opened after that, "again" once close(3010)
                    \* closed that socket too, "-" otherwise
  offlineSendQueue, \* resolve functions of parked send() calls, never removed
  scope,            \* what this run's environment does: packets, codes, bounds
  out,              \* websocket.send() calls of the last task, in order
  fwd,              \* handlePayload() calls of that task, in order
  conn,             \* connect() calls of that task: [data at the call, why]
  thrown,           \* the error that task raised or reported, or Undefined
  beat,             \* that task set heart.lastBeat to the time of the task
  bucket,           \* this.bucket: [limit, remaining]
  fleet,            \* the shards of one process seen from outside: the clock,
                    \* each shard's connectTimeout, and the connect() calls
                    \* that passed it
  ret,              \* what a call of calculateSafeRequests() in that task returned
  task              \* the event that started the last task

vars == <<debug, data, heart, timers, websocket, stale, gate, called, hellos,
          zombied, offlineSendQueue,
          scope, out, fwd, conn, thrown, beat, bucket, fleet, ret, task>>

\* The whole state as one value, so that a handler is a function of it.
State == [data |-> data, heart |-> heart, timers |-> timers,
          websocket |-> websocket, stale |-> stale, gate |-> gate, called |-> called,
          hellos |-> hellos, zombied |-> zombied,
          queue |-> offlineSendQueue, micro |-> <<>>, out |-> out,
          fwd |-> fwd, conn |-> conn, thrown |-> thrown, beat |-> beat,
          bucket |-> bucket,
          ret |-> ret]

Commit(st) ==
  /\ data' = st.data
  /\ heart' = st.heart
  /\ timers' = st.timers
  /\ websocket' = st.websocket
  /\ stale' = st.stale
  /\ gate' = st.gate
  /\ called' = st.called
  /\ hellos' = st.hellos
  /\ zombied' = st.zombied
  /\ offlineSendQueue' = st.queue
  /\ out' = st.out
  /\ fwd' = st.fwd
  /\ conn' = st.conn
  /\ thrown' = st.thrown
  /\ beat' = st.beat
  /\ bucket' = st.bucket
  /\ ret' = st.ret
  /\ UNCHANGED <<debug, scope, fleet>>

\* A task starts with nothing written, nothing forwarded and nothing thrown.
Fresh == [State EXCEPT !.out = <<>>, !.fwd = <<>>, !.conn = <<>>,
                       !.thrown = Undefined, !.beat = FALSE, !.ret = Undefined]

\* ----------------------------------------------------------------- sockets
NoSocket   == [readyState |-> "null", code |-> 0]
Connecting == [readyState |-> "connecting", code |-> 0]
Open       == [readyState |-> "open", code |-> 0]
Closing(code) == [readyState |-> "closing", code |-> code]
Closed     == [readyState |-> "closed", code |-> 0]

\* a replaced socket that can still deliver events
StaleKinds == {Connecting, Open, Closing(Shutdown), Closing(ZombiedConnection)}
StaleCount(b) == b[Connecting] + b[Open] + b[Closing(Shutdown)]
                   + b[Closing(ZombiedConnection)]
BagAdd(b, k) == [b EXCEPT ![k] = @ + 1]
BagDel(b, k) == [b EXCEPT ![k] = @ - 1]

\* get isOpen(): this.websocket?.readyState === 1
IsOpen(st) == st.websocket.readyState = "open"

\* get resumable(): a string is truthy when it is set and not empty
Truthy(x) == x # Undefined /\ x # ""
\* (a resumable that does not look at the session id)
Resumable_IgnoresSession(st) ==
  /\ Truthy(st.data.resume_gateway_url)
  /\ st.data.resume_seq # NullSeq
Resumable(st) ==
  /\ Truthy(st.data.resume_gateway_url)
  /\ Truthy(st.data.session_id)
  /\ st.data.resume_seq # NullSeq

\* logger?.throw(msg): reports only when the constructor made a logger
LoggerThrow(st, msg) == IF debug THEN [st EXCEPT !.thrown = msg] ELSE st

\* clearInterval(this.heart.nodeInterval) / clearTimeout(...).  A handle of a
\* cleared timer is dead: nodeInterval is kept as 0 when it names no armed timer.
ClearInterval(st) ==
  [st EXCEPT !.timers = {t \in @ : t.id # st.heart.nodeInterval},
             !.heart.nodeInterval = 0]

\* setInterval(...): a handle no armed timer has, and that is not nodeInterval
FreshHandle(st) ==
  CHOOSE h \in 1..(Cardinality(st.timers) + 2) :
    /\ h # st.heart.nodeInterval
    /\ \A t \in st.timers : t.id # h
    /\ \A g \in 1..(h - 1) : g = st.heart.nodeInterval \/ \E t \in st.timers : t.id = g

SetInterval(st) ==
  LET h == FreshHandle(st)
  IN [st EXCEPT !.timers = @ \cup {[id |-> h, interval |-> st.heart.interval]},
                !.heart.nodeInterval = h]

\* close(code, reason)
Close(st, code) ==
  LET c == ClearInterval(st)
  IN IF ~IsOpen(c) THEN c
     ELSE [c EXCEPT !.websocket = Closing(code),
                    !.zombied = IF scope.history /\ code = ZombiedConnection
                                THEN IF @ = "after" THEN "again" ELSE "closed"
                                ELSE @]

\* ------------------------------------------------------------------ frames
HeartbeatFrame(st) ==
  [op |-> "Heartbeat", seq |-> st.data.resume_seq, sid |-> "-", id |-> 0]
IdentifyFrame == [op |-> "Identify", seq |-> NullSeq, sid |-> "-", id |-> 0]
ResumeFrame(st) ==
  [op |-> "Resume",
   seq |-> IF st.data.resume_seq = NullSeq THEN 0 ELSE st.data.resume_seq,
   sid |-> IF st.data.session_id = Undefined THEN "" ELSE st.data.session_id,
   id |-> 0]
UserFrame(n) == [op |-> "User", seq |-> NullSeq, sid |-> "-", id |-> n]

\* this.websocket?.send(frame).  An open socket transmits it; a socket that is
\* still connecting throws InvalidStateError; a closing or closed one drops it.
\* m carries the frame with how send() got here: force, and parked (the call
\* waited in offlineSendQueue).
WsSend(st, m) ==
  CASE st.websocket.readyState = "null" -> st
    [] st.websocket.readyState = "connecting" ->
         [st EXCEPT !.thrown = "InvalidStateError"]
    [] st.websocket.readyState = "open" ->
         [st EXCEPT !.out = Append(@, [m EXCEPT !.tx = TRUE])]
    [] OTHER -> [st EXCEPT !.out = Append(@, [m EXCEPT !.tx = FALSE])]

Msg(frame, force, parked) ==
  [frame |-> frame, force |-> force, parked |-> parked, tx |-> FALSE]

Enqueue(st, k) == [st EXCEPT !.micro = Append(@, k)]
Cont(k, m, why) == [k |-> k, m |-> m, why |-> why]
NoMsg == Msg(IdentifyFrame, FALSE, FALSE)

\* (a checkOffline that parks every call at the back)
CheckOffline_AlwaysPush(st, k, m) ==
  IF ~IsOpen(st)
  THEN LET e == [k |-> k, m |-> [m EXCEPT !.parked = TRUE], done |-> FALSE]
       IN [st EXCEPT !.queue = Append(@, e)]
  ELSE Enqueue(st, Cont(k, m, "-"))

\* calculateSafeRequests(): Math.ceil of the quotient of two positive integers
Ceil(a, b) == (a + b - 1) \div b
CalculateSafeRequests_Floor(o, interval) ==
  LET SAFE_REQUESTS == o.maxRequestsPerRateLimitTick
                         - (o.rateLimitResetInterval \div interval) * 2
  IN IF SAFE_REQUESTS < 0 THEN 0 ELSE SAFE_REQUESTS
CalculateSafeRequests(o, interval) ==
  LET SAFE_REQUESTS == o.maxRequestsPerRateLimitTick
                         - Ceil(o.rateLimitResetInterval, interval) * 2
  IN IF SAFE_REQUESTS < 0 THEN 0 ELSE SAFE_REQUESTS

\* new Bucket(limit), bucket.process(force) and the bucket's periodic reset.
\* process takes one unit of what remains; with nothing left a force call
\* passes and any other call is suspended until the reset.  send() does not
\* await process, so a suspended call holds nothing back.
NewBucket(limit) == [limit |-> limit, remaining |-> limit]
BucketProcess(st, force) ==
  IF st.bucket.remaining > 0
  THEN [st EXCEPT !.bucket.remaining = @ - 1]
  ELSE st
BucketRefill(st) == [st EXCEPT !.bucket.remaining = st.bucket.limit]

\* checkOffline(force), then the await of its promise: when the socket is not
\* open the rest of send() (stage k) is parked in offlineSendQueue, in front
\* for force and at the back otherwise; when it is open the rest runs next.
CheckOffline(st, k, m) ==
  IF ~IsOpen(st)
  THEN LET e == [k |-> k, m |-> [m EXCEPT !.parked = TRUE], done |-> FALSE]
       IN [st EXCEPT !.queue = IF m.force THEN <<e>> \o @ ELSE Append(@, e)]
  ELSE Enqueue(st, Cont(k, m, "-"))

\* send(force, message) up to its first await
Send(st, force, frame) == CheckOffline(st, "sendA", Msg(frame, force, FALSE))

\* identify() / resume()
Identify(st) == Send(st, TRUE, IdentifyFrame)
Resume(st)   == Send(st, TRUE, ResumeFrame(st))

\* heartbeat(requested).  next names the continuation of the caller that awaits
\* it ("-" when the caller does not await: the timer, the Heartbeat opcode).
Heartbeat_NeverMarks(st, requested, next) ==
  IF ~requested /\ ~st.heart.ack
  THEN LET c == Close(st, ZombiedConnection)
       IN IF next = "-" THEN c ELSE Enqueue(c, Cont("zombieB", NoMsg, next))
  ELSE LET b == [st EXCEPT !.beat = TRUE]
           w == WsSend(b, Msg(HeartbeatFrame(b), FALSE, FALSE))
       IN IF b.websocket.readyState = "connecting" \/ next = "-" THEN w
          ELSE Enqueue(w, Cont(next, NoMsg, "-"))
Heartbeat(st, requested, next) ==
  IF ~requested /\ ~st.heart.ack
  THEN LET c == Close(st, ZombiedConnection)
       IN IF next = "-" THEN c ELSE Enqueue(c, Cont("zombieB", NoMsg, next))
  ELSE LET a == IF requested THEN st ELSE [st EXCEPT !.heart.ack = FALSE]
           b == [a EXCEPT !.beat = TRUE]
           w == WsSend(b, Msg(HeartbeatFrame(b), FALSE, FALSE))
       IN IF b.websocket.readyState = "connecting" \/ next = "-" THEN w
          ELSE Enqueue(w, Cont(next, NoMsg, "-"))

\* connect() up to its await: the call joins the connect gate.  why names the
\* caller: "user", or the reconnect() of "opcode", "loss", "transient", "unknown".
Connect(st, why) ==
  [st EXCEPT !.gate = @ + 1,
             !.called = IF scope.history THEN Append(@, IsOpen(st)) ELSE @,
             !.conn = Append(@, [data |-> st.data, why |-> why])]

\* connect() after the gate let it pass
ConnectB_NoOpenCheck(st) ==
  LET c == ClearInterval(st)
      old == c.websocket
  IN [c EXCEPT !.websocket = Connecting,
               !.stale = IF old.readyState \in {"connecting", "closing"}
                         THEN BagAdd(@, old) ELSE @]
ConnectB(st) ==
  IF IsOpen(st) THEN st
  ELSE LET c == ClearInterval(st)
           old == c.websocket
       IN [c EXCEPT !.websocket = Connecting,
                    !.stale = IF old.readyState \in {"connecting", "closing"}
                              THEN BagAdd(@, old) ELSE @]

\* disconnect(), reconnect(): close with Shutdown, and after two awaits connect()
Disconnect(st) == Close(st, Shutdown)
\* (a reconnect() that forgets connect())
Reconnect_OnlyDisconnect(st, why) == Disconnect(st)
Reconnect(st, why) == Enqueue(Disconnect(st), Cont("disconnectB", NoMsg, why))

\* this.offlineSendQueue.map((resolve) => resolve()): every promise still
\* pending is resolved, in queue order; the array keeps all its entries
\* (a resolved entry does nothing any more: it is kept as Resolved)
Resolved == [k |-> "-", m |-> NoMsg, done |-> TRUE]
RECURSIVE FlushFrom(_, _)
FlushFrom(st, i) ==
  IF i > Len(st.queue) THEN st
  ELSE LET e == st.queue[i]
       IN FlushFrom(IF e.done THEN st
                    ELSE Enqueue([st EXCEPT !.queue[i] = Resolved],
                                 Cont(e.k, e.m, "-")),
                    i + 1)
Flush(st) == FlushFrom(st, 1)

\* this.options.handlePayload(this.id, packet)
Payload(p) == [id |-> scope.id, packet |-> p]
Forward_Twice(st, p) == [st EXCEPT !.fwd = Append(Append(@, Payload(p)), Payload(p))]
Forward(st, p) == [st EXCEPT !.fwd = Append(@, Payload(p))]

\* onpacket(packet) up to its first await
OnPacket(st0, p) ==
  LET st == IF p.s # NullSeq THEN [st0 EXCEPT !.data.resume_seq = p.s] ELSE st0
  IN CASE p.op = "Hello" ->
            Heartbeat([ClearInterval(st) EXCEPT !.heart.interval = p.i],
                      FALSE, "helloB")
       [] p.op = "HeartbeatAck" -> [st EXCEPT !.heart.ack = TRUE]
       [] p.op = "Heartbeat" -> Heartbeat(st, TRUE, "-")
       [] p.op = "Reconnect" -> Reconnect(st, "opcode")
       [] p.op = "InvalidSession" ->
            IF p.d
            THEN IF ~Resumable(st)
                 THEN LoggerThrow(st, "This is a completely unexpected error message.")
                 ELSE Resume(st)
            ELSE Identify([st EXCEPT !.data.resume_seq = 0,
                                     !.data.session_id = Undefined])
       [] p.op = "Dispatch" /\ p.t = "RESUMED" -> Forward(Flush(st), p)
       [] p.op = "Dispatch" /\ p.t = "READY" ->
            Forward(Flush([st EXCEPT !.data.resume_gateway_url = p.url,
                                     !.data.session_id = p.sid]), p)
       [] OTHER -> Forward(st, p)

\* (a Hello that always identifies)
HelloB_AlwaysIdentify(st) == Identify(SetInterval(st))
\* Hello after `await this.heartbeat(false)`
HelloB(st) ==
  LET t == SetInterval(st)
  IN IF Resumable(t) THEN Resume(t) ELSE Identify(t)

\* (a handleClosed that keeps the session id on a resumable-loss code)
HandleClosed_KeepsSession(st, code) ==
  LET c == ClearInterval(st)
  IN CASE code = Shutdown -> c
       [] code \in ResumableLossCodes ->
            Reconnect([c EXCEPT !.data.resume_seq = 0,
                                !.data.resume_gateway_url = Undefined], "loss")
       [] code \in TransientCodes -> Reconnect(c, "transient")
       [] code \in FatalCodes -> LoggerThrow(c, "Cannot reconnect")
       [] OTHER -> Reconnect(c, "unknown")

\* handleClosed(close)
HandleClosed_AlwaysReconnects(st, code) ==
  LET c == ClearInterval(st)
  IN CASE code \in ResumableLossCodes ->
            Reconnect([c EXCEPT !.data.resume_seq = 0,
                                !.data.session_id = Undefined,
                                !.data.resume_gateway_url = Undefined], "loss")
       [] code \in TransientCodes -> Reconnect(c, "transient")
       [] code \in FatalCodes -> LoggerThrow(c, "Cannot reconnect")
       [] OTHER -> Reconnect(c, "unknown")
HandleClosed(st, code) ==
  LET c == ClearInterval(st)
  IN CASE code = Shutdown -> c
       [] code \in ResumableLossCodes ->
            Reconnect([c EXCEPT !.data.resume_seq = 0,
                                !.data.session_id = Undefined,
                                !.data.resume_gateway_url = Undefined], "loss")
       [] code \in TransientCodes -> Reconnect(c, "transient")
       [] code \in FatalCodes -> LoggerThrow(c, "Cannot reconnect")
       [] OTHER -> Reconnect(c, "unknown")

\* one continuation of the microtask queue
RunContinuation(st, c) ==
  CASE c.k = "sendA" -> CheckOffline(BucketProcess(st, c.m.force), "sendB", c.m)
    [] c.k = "sendB" -> WsSend(st, c.m)
    [] c.k = "zombieB" -> Enqueue(st, Cont(c.why, NoMsg, "-"))
    [] c.k = "helloB" -> HelloB(st)
    [] c.k = "disconnectB" -> Enqueue(st, Cont("reconnectB", NoMsg, c.why))
    [] OTHER -> Connect(st, c.why)

\* the microtask queue is drained before the task ends
RECURSIVE Drain(_)
Drain(st) ==
  IF st.micro = <<>> THEN st
  ELSE Drain(RunContinuation([st EXCEPT !.micro = Tail(@)], Head(st.micro)))

\* ------------------------------------------------------------------ bounds
Bounded(st) ==
  /\ st.gate <= scope.gate
  /\ Len(st.queue) <= scope.queue
  /\ StaleCount(st.stale) <= scope.stale

\* user messages parked in offlineSendQueue, and the next message's number
LiveIds ==
  {offlineSendQueue[i].m.frame.id :
     i \in {j \in 1..Len(offlineSendQueue) : ~offlineSendQueue[j].done}}
NextId == 1 + (CHOOSE n \in LiveIds \cup {0} : \A k \in LiveIds : k <= n)

\* the event of a task: ev is the callback ("connect", "disconnect", "send",
\* "gate", "open", "close", "packet", "timer"), from is who called ("user",
\* "loop", "ws" for this.websocket, "stale" for a replaced socket), cls is the
\* case of handleClosed a close code falls in, p is the packet
NoPacket == [op |-> "-", s |-> NullSeq, t |-> "-", i |-> 0, d |-> FALSE,
             sid |-> "-", url |-> "-"]
Event(ev, from) == [ev |-> ev, from |-> from, cls |-> "-", p |-> NoPacket]
CloseEvent(from, code) ==
  [Event("close", from) EXCEPT !.cls =
     CASE code = Shutdown -> "shutdown"
       [] code \in ResumableLossCodes -> "loss"
       [] code \in TransientCodes -> "transient"
       [] code \in FatalCodes -> "fatal"
       [] OTHER -> "unknown"]
PacketEvent(from, p) == [Event("packet", from) EXCEPT !.p = p]

\* a task: the handler's synchronous part and its continuations
Task(e, st) ==
  LET end == Drain(st)
  IN /\ Bounded(end)
     /\ Commit(end)
     /\ task' = e

\* --------------------------------------------------------- connect gates
\* ConnectTimeout: wait() queues the caller; callers are let through in the
\* order of their wait() calls, each no sooner than Spacing after the one
\* before.
Shards  == {0, 1}
Spacing == 2
NewConnectTimeout == [promises |-> <<>>, turns |-> 0, last |-> 0]
Wait(g, call) == [g EXCEPT !.promises = Append(@, call)]
CanPass(g, now) ==
  /\ g.promises # <<>>
  /\ g.turns = 0 \/ now - g.last >= Spacing
Pass(g, now) == [g EXCEPT !.promises = Tail(@), !.turns = 1, !.last = now]

\* public connectTimeout = new ConnectTimeout(): a field initialiser, so
\* every shard waits on an instance of its own
GateOf(s) == s

NewFleet == [clock |-> 0, calls |-> 0,
             connectTimeout |-> [g \in Shards |-> NewConnectTimeout],
             passed |-> <<>>]

\* ----------------------------------------------------------------- actions
Construct ==
  /\ data = [resume_seq |-> NullSeq, session_id |-> Undefined,
             resume_gateway_url |-> Undefined]
  /\ heart = [interval |-> DefaultInterval, ack |-> TRUE, nodeInterval |-> 0]
  /\ timers = {}
  /\ websocket = NoSocket
  /\ stale = [k \in StaleKinds |-> 0]
  /\ gate = 0
  /\ called = <<>>
  /\ hellos = 0
  /\ zombied = "-"
  /\ offlineSendQueue = <<>>
  /\ out = <<>>
  /\ fwd = <<>>
  /\ conn = <<>>
  /\ thrown = Undefined
  /\ beat = FALSE
  /\ ret = Undefined
  /\ fleet = NewFleet
  /\ bucket = NewBucket(CalculateSafeRequests(scope.ratelimitOptions, heart.interval))
  /\ task = Event("construct", "user")

\* new Shard(id, options) with the optional options.debug left unset
Init ==
  /\ scope = [packets |-> Packets, codes |-> ServerCodes, stale |-> MaxStale,
              gate |-> MaxGate, queue |-> MaxQueue, sends |-> 0,
              ratelimitOptions |-> NoBudget, id |-> ShardId, history |-> FALSE]
  /\ debug = FALSE
  /\ Construct

InitSend ==
  /\ scope = [packets |-> SendPackets, codes |-> SendCodes,
              stale |-> MaxStaleSend, gate |-> MaxGate, queue |-> MaxQueueSend,
              sends |-> MaxSends, ratelimitOptions |-> NoBudget, id |-> ShardId, history |-> FALSE]
  /\ debug = FALSE
  /\ Construct

\* API calls
UserConnect == Task(Event("connect", "user"), Connect(Fresh, "user"))
UserDisconnect == Task(Event("disconnect", "user"), Disconnect(Fresh))
UserSendForce(force) ==
  /\ NextId <= scope.sends
  /\ Task(Event("send", "user"), Send(Fresh, force, UserFrame(NextId)))
UserSend == \E force \in BOOLEAN : UserSendForce(force)

\* connectTimeout lets the first waiting connect() pass
GateRelease ==
  /\ gate > 0
  /\ Task(Event("gate", "loop"), ConnectB([Fresh EXCEPT !.gate = @ - 1,
                                !.called = IF scope.history THEN Tail(@) ELSE @]))

\* events of this.websocket
WsOpen ==
  /\ websocket.readyState = "connecting"
  /\ Task(Event("open", "ws"),
          [Fresh EXCEPT !.websocket = Open, !.heart.ack = TRUE, !.hellos = 0,
                        !.zombied = IF @ \in {"closed", "again"} THEN "after" ELSE "-"])

\* the close event of a socket: a socket that never opened fails with 1006, an
\* open one is closed by the gateway, one closed by close(code) reports that
\* code, or 1006 when the closing handshake fails
CloseEventCodes(sock) ==
  CASE sock.readyState = "connecting" -> {1006}
    [] sock.readyState = "open" -> scope.codes
    [] sock.readyState = "closing" -> {sock.code, 1006}
    [] OTHER -> {}

WsCloseCode(code) ==
  /\ code \in CloseEventCodes(websocket)
  /\ Task(CloseEvent("ws", code),
          HandleClosed([Fresh EXCEPT !.websocket = Closed], code))
WsClose == \E code \in CloseCodes : WsCloseCode(code)

WsPacket(p) ==
  /\ websocket.readyState = "open"
  /\ Task(PacketEvent("ws", p),
          OnPacket([Fresh EXCEPT !.hellos = IF scope.history /\ p.op = "Hello" /\ @ < 2
                                           THEN @ + 1 ELSE @], p))
WsMessage == \E p \in scope.packets : WsPacket(p)

\* events of a replaced socket: its handlers are closures over the same shard
StaleOpen ==
  /\ stale[Connecting] > 0
  /\ Task(Event("open", "stale"),
          [Fresh EXCEPT !.stale = BagAdd(BagDel(@, Connecting), Open),
                        !.heart.ack = TRUE])

StaleCloseCode(k, code) ==
  /\ stale[k] > 0
  /\ code \in CloseEventCodes(k)
  /\ Task(CloseEvent("stale", code),
          HandleClosed([Fresh EXCEPT !.stale = BagDel(@, k)], code))
StaleClose == \E k \in StaleKinds : \E code \in CloseCodes : StaleCloseCode(k, code)

\* Nothing was ever written to a replaced socket (it was replaced before it
\* opened, and every write goes to this.websocket), so the gateway sends on it
\* only what it sends unasked.
UnaskedOps == {"Hello", "Heartbeat", "Reconnect"}
StalePacket(p) ==
  /\ stale[Open] > 0
  /\ p.op \in UnaskedOps
  /\ Task(PacketEvent("stale", p), OnPacket(Fresh, p))
StaleMessage == \E p \in scope.packets : StalePacket(p)

\* the interval timer calls heartbeat(false)
TimerFire ==
  /\ timers # {}
  /\ Task(Event("timer", "loop"), Heartbeat(Fresh, FALSE, "-"))

Next ==
  \/ UserConnect
  \/ UserDisconnect
  \/ GateRelease
  \/ WsOpen
  \/ WsClose
  \/ WsMessage
  \/ StaleOpen
  \/ StaleClose
  \/ StaleMessage
  \/ TimerFire

Spec == Init /\ [][Next]_vars

\* the same shard with a user that sends messages
NextSend == Next \/ UserSend
SpecSend == InitSend /\ [][NextSend]_vars

\* a caller that calls send(force, m) and, one microtask later, disconnect()
\* (shard.send(force, m); await null; shard.disconnect()).  The continuation
\* of send()'s first await was queued before the caller's, and the one of its
\* second await after: bucket.process and the second checkOffline run, then
\* disconnect(), then the rest of send().
UserSendThenDisconnectForce(force) ==
  /\ NextId <= scope.sends
  /\ LET a == Send(Fresh, force, UserFrame(NextId))
         b == IF a.micro = <<>> THEN a
              ELSE RunContinuation([a EXCEPT !.micro = Tail(@)], Head(a.micro))
     IN Task(Event("send", "caller"), Disconnect(b))
UserSendThenDisconnect == \E force \in BOOLEAN : UserSendThenDisconnectForce(force)

\* the same shard with that caller, under what the event loop guarantees: a
\* connect() that waits at the connect gate passes it, and an armed interval
\* timer fires
NextLive == NextSend \/ UserSendThenDisconnect
SpecLive == InitSend /\ [][NextLive]_vars /\ WF_vars(GateRelease) /\ WF_vars(TimerFire)

\* the same shard and user with a bucket that has capacity, and the bucket's
\* periodic reset
InitBucket ==
  /\ scope = [packets |-> SendPackets, codes |-> SendCodes,
              stale |-> MaxStaleSend, gate |-> MaxGate, queue |-> MaxQueue,
              sends |-> MaxSends, ratelimitOptions |-> SmallBudget, id |-> ShardId,
              history |-> FALSE]
  /\ debug = FALSE
  /\ Construct

BucketReset == Task(Event("reset", "loop"), BucketRefill(Fresh))

NextBucket == NextSend \/ BucketReset
SpecBucket == InitBucket /\ [][NextBucket]_vars

\* the shard with the history of its connect() calls
InitConnect ==
  /\ scope = [packets |-> SendPackets, codes |-> SendCodes,
              stale |-> MaxStaleSend, gate |-> MaxGate, queue |-> MaxQueue,
              sends |-> 0, ratelimitOptions |-> NoBudget, id |-> ShardId,
              history |-> TRUE]
  /\ debug = FALSE
  /\ Construct
SpecConnect == InitConnect /\ [][Next]_vars

\* two shards of one process, each calling connect(): what is seen of them
\* is the wait on the connect gate and the moment the call passes it and
\* opens its socket
shardVars == <<debug, data, heart, timers, websocket, stale, gate, called, hellos,
               zombied,
               offlineSendQueue, scope, out, fwd, conn, thrown, beat, bucket, ret,
               task>>

ShardConnect(s) ==
  /\ fleet.calls < MaxCalls
  /\ fleet' = [fleet EXCEPT !.calls = @ + 1,
                            !.connectTimeout[GateOf(s)] = Wait(@, fleet.calls + 1)]
  /\ UNCHANGED shardVars

ShardPass(s) ==
  LET g == fleet.connectTimeout[GateOf(s)]
  IN /\ CanPass(g, fleet.clock)
     /\ fleet' = [fleet EXCEPT
                    !.connectTimeout[GateOf(s)] = Pass(@, fleet.clock),
                    !.passed = Append(@, [shard |-> s, call |-> Head(g.promises),
                                          at |-> fleet.clock])]
     /\ UNCHANGED shardVars

Tick ==
  /\ fleet.clock < MaxClock
  /\ fleet' = [fleet EXCEPT !.clock = @ + 1]
  /\ UNCHANGED shardVars

NextFleet ==
  \/ \E s \in Shards : ShardConnect(s)
  \/ \E s \in Shards : ShardPass(s)
  \/ Tick
SpecFleet == Init /\ [][NextFleet]_vars

\* shards constructed with a range of ratelimitOptions, connected up to Hello
\* (which stores the gateway's heartbeat interval), and a user that calls
\* calculateSafeRequests()
ResetIntervals == {1, 30000, 30001, 60000, 82500, 90000}
RatelimitInputs ==
  [maxRequestsPerRateLimitTick : 1..MaxRequests, rateLimitResetInterval : ResetIntervals]
    \cup {DefaultRatelimit}

InitCalc ==
  /\ scope \in [packets : {HelloPackets}, codes : {ServerCodes}, stale : {MaxStale},
                 gate : {MaxGate}, queue : {MaxQueue}, sends : {0},
                 ratelimitOptions : RatelimitInputs, id : {ShardId},
                 history : {FALSE}]
  /\ debug = FALSE
  /\ Construct

UserCalculate ==
  Task(Event("calculate", "user"),
       [Fresh EXCEPT !.ret = CalculateSafeRequests(scope.ratelimitOptions, heart.interval)])

NextCalc ==
  \/ UserCalculate
  \/ UserConnect
  \/ GateRelease
  \/ WsOpen
  \/ WsMessage
SpecCalc == InitCalc /\ [][NextCalc]_vars

\* ------------------------------------------------------------------ claims
\* the last task handled a close event of one of these cases of handleClosed
IsClose(e, classes) == e.ev = "close" /\ e.cls \in classes
\* the last task handled a packet with one of these opcodes
IsPacket(e, ops) == e.ev = "packet" /\ e.p.op \in ops

\* a frame that websocket.send() took from a call that did not wait, and
\* transmitted
Sent(frame, force) == [frame |-> frame, force |-> force, parked |-> FALSE, tx |-> TRUE]
AuthOps == {"Identify", "Resume"}
Written(o, ops) == {i \in 1..Len(o) : o[i].frame.op \in ops}

\* C1: a close event with a fatal-class code reports the terminal error
\* "Cannot reconnect" and makes no connect() call.
C1_FatalCloseIsTerminal ==
  IsClose(task, {"fatal"}) =>
    /\ thrown = "Cannot reconnect"
    /\ conn = <<>>

\* a fatal close handled by a shard without a logger: nothing is reported
C1_Witness ==
  /\ IsClose(task, {"fatal"})
  /\ ~debug
  /\ thrown = Undefined
  /\ conn = <<>>

\* C2 as the specification words it: when the reconnect after a resumable-loss
\* close calls connect(), resume_seq is null and session_id and
\* resume_gateway_url are unset.
C2_LossNullsAll ==
  IsClose(task, {"loss"}) =>
    /\ Len(conn) = 1
    /\ conn[1].data = [resume_seq |-> NullSeq, session_id |-> Undefined,
                       resume_gateway_url |-> Undefined]

\* C2: when the reconnect after a resumable-loss close calls connect(),
\* session_id and resume_gateway_url are unset and resume_seq is 0, and the
\* shard is not resumable.
C2_LossClearsSession ==
  IsClose(task, {"loss"}) =>
    /\ conn = <<[data |-> [resume_seq |-> 0, session_id |-> Undefined,
                           resume_gateway_url |-> Undefined],
                 why |-> "loss"]>>
    /\ data = conn[1].data
    /\ ~Resumable(State)

C2_Witness ==
  /\ IsClose(task, {"loss"})
  /\ Len(conn) = 1
  /\ data.resume_seq = 0
  /\ data.session_id = Undefined
  /\ gate > 0

\* C3: a close event with a transient or an unrecognized code calls connect()
\* once, with resume_seq, session_id and resume_gateway_url as they were
\* before the close.
C3_TransientKeepsSession ==
  [][IsClose(task', {"transient", "unknown"}) =>
       /\ data' = data
       /\ conn' = <<[data |-> data, why |-> task'.cls]>>
       /\ gate' = gate + 1]_vars

C3_Witness ==
  /\ IsClose(task, {"transient", "unknown"})
  /\ Resumable(State)
  /\ Len(conn) = 1
  /\ conn[1].data = data
  /\ gate > 0

\* C4: a Dispatch with sequence n leaves resume_seq = n and forwards the
\* payload; the Reconnect opcode and a transient close of the socket keep the
\* session data and call connect(); the gate and the open event keep it too,
\* and the open event leaves ack true; the Hello on the open socket of a
\* resumable shard then writes the heartbeat and a Resume frame with
\* resume_seq and session_id, and no Identify frame.
C4_EndToEndResume ==
  [][/\ IsPacket(task', {"Dispatch"}) =>
          data'.resume_seq = task'.p.s /\ fwd' = <<Payload(task'.p)>>
     /\ IsPacket(task', {"Reconnect"}) /\ task'.from = "ws" =>
          data' = data /\ conn' = <<[data |-> data, why |-> "opcode"]>>
     /\ IsClose(task', {"transient"}) /\ task'.from = "ws" =>
          data' = data /\ conn' = <<[data |-> data, why |-> "transient"]>>
     /\ task'.ev \in {"gate", "open"} => data' = data
     /\ task'.ev = "open" => heart'.ack
     /\ IsPacket(task', {"Hello"}) /\ task'.from = "ws"
          /\ heart.ack /\ Resumable(State) =>
          out' = <<Sent(HeartbeatFrame(State), FALSE),
                   Sent([op |-> "Resume", seq |-> data.resume_seq,
                         sid |-> data.session_id, id |-> 0], TRUE)>>]_vars

\* the Hello of a socket that replaced one closed by disconnect(), answered
\* with a Resume that carries sequence 2 and the stored session id
C4_Witness ==
  /\ IsPacket(task, {"Hello"})
  /\ task.from = "ws"
  /\ stale[Closing(Shutdown)] > 0
  /\ data.resume_seq = 2
  /\ data.session_id \in SessionIds
  /\ Len(out) = 2
  /\ out[2] = Sent([op |-> "Resume", seq |-> 2, sid |-> data.session_id, id |-> 0], TRUE)

\* C5: resumable is true exactly when session_id, resume_gateway_url and a
\* non-null resume_seq are all set.
C5_ResumableIffAllSet ==
  Resumable(State) <=> /\ data.session_id # Undefined
                       /\ data.resume_gateway_url # Undefined
                       /\ data.resume_seq # NullSeq

C5_Witness ==
  /\ Resumable(State)
  /\ data.session_id \in SessionIds
  /\ data.resume_gateway_url \in ResumeURLs
  /\ data.resume_seq \in SeqVals

\* C6: heartbeat(false), called by the timer or by a Hello, with ack false
\* closes the socket with 3010 and writes no heartbeat frame; with ack true it
\* transmits a heartbeat frame.
C6_ZombieOrBeat ==
  [][task'.ev = "timer" \/ IsPacket(task', {"Hello"}) =>
       IF ~heart.ack
       THEN /\ Written(out', {"Heartbeat"}) = {}
            /\ websocket.readyState = "open" => websocket' = Closing(ZombiedConnection)
            /\ websocket'.readyState # "open"
       ELSE /\ Len(out') >= 1
            /\ out'[1] = Sent(HeartbeatFrame(State), FALSE)]_vars

\* the Hello of a replaced socket while this.websocket is connecting: ack was
\* true, the heartbeat's send() threw, nothing was transmitted
C6_Witness ==
  /\ IsPacket(task, {"Hello"})
  /\ task.from = "stale"
  /\ websocket = Connecting
  /\ thrown = "InvalidStateError"
  /\ ~heart.ack
  /\ out = <<>>

\* C7: at most one timer is armed; after a Hello the timer that is armed is
\* the one of nodeInterval, with the interval of that Hello.
C7_OneTimerAfterHello ==
  /\ Cardinality(timers) <= 1
  /\ IsPacket(task, {"Hello"}) =>
       /\ heart.interval = task.p.i
       /\ timers = {[id |-> heart.nodeInterval, interval |-> task.p.i]}

\* a Hello whose handler stopped at the heartbeat: no timer is armed
C7_Witness ==
  /\ IsPacket(task, {"Hello"})
  /\ heart.interval = task.p.i
  /\ thrown = "InvalidStateError"
  /\ timers = {}

\* C8: a Hello writes exactly one authentication frame: a Resume when the
\* shard is resumable, an Identify otherwise.
C8_OneAuthPerHello ==
  [][IsPacket(task', {"Hello"}) =>
       \E i \in 1..Len(out') :
         /\ Written(out', AuthOps) = {i}
         /\ out'[i].tx
         /\ out'[i].frame.op = IF Resumable(State) THEN "Resume" ELSE "Identify"]_vars

\* a Hello on the shard's open socket with the previous heartbeat not
\* acknowledged: the socket is closed with 3010, nothing is written, and the
\* Identify waits in offlineSendQueue
C8_Witness ==
  /\ IsPacket(task, {"Hello"})
  /\ task.from = "ws"
  /\ websocket = Closing(ZombiedConnection)
  /\ out = <<>>
  /\ \E q \in 1..Len(offlineSendQueue) :
       /\ ~offlineSendQueue[q].done
       /\ offlineSendQueue[q].m.frame.op \in AuthOps

\* the writes of the last task whose send() call had waited in offlineSendQueue
Parked(o) == {i \in 1..Len(o) : o[i].parked}
\* the calls that still wait there
Pending == {i \in 1..Len(offlineSendQueue) : ~offlineSendQueue[i].done}

C10_SameClassFIFO ==
  \A i, j \in Parked(out) :
    /\ i < j
    /\ out[i].force = out[j].force
    /\ out[i].frame.op = "User"
    /\ out[j].frame.op = "User"
    => out[i].frame.id < out[j].frame.id

\* send(true, 1) then send(true, 2) while offline: 2 is written, then 1
C10_Witness ==
  /\ Len(out) >= 2
  /\ out[1] = [frame |-> UserFrame(2), force |-> TRUE, parked |-> TRUE, tx |-> TRUE]
  /\ out[2] = [frame |-> UserFrame(1), force |-> TRUE, parked |-> TRUE, tx |-> TRUE]

\* C11: within one reset window of the bucket, send(false, m) writes no more
\* frames than the bucket has capacity left: a task other than the reset writes
\* at most bucket.remaining frames of non-force sends, so a non-force send
\* issued with the bucket exhausted writes nothing before the next reset.
Unforced(o) == {i \in Written(o, {"User"}) : o[i].tx /\ ~o[i].force}
C11_NonForceWaitsForReset ==
  [][task'.ev # "reset" => Cardinality(Unforced(out')) <= bucket.remaining]_vars
\* a non-force send on an open socket, after Ready, with the bucket exhausted
C11_Witness ==
  /\ task.ev = "send"
  /\ bucket.remaining = 0
  /\ websocket = Open
  /\ Unforced(out) # {}

\* C12: the capacity the bucket is constructed with, and what
\* calculateSafeRequests() returns later, is
\* max(0, maxRequestsPerRateLimitTick - 2 * ceil(rateLimitResetInterval / interval))
\* with the heartbeat interval of that moment; it is never negative, and it is
\* 116 for 120 / 60000 / 30000.
\* ceil(a / b): the least k with k * b >= a
LeastMultiple(a, b) ==
  CHOOSE k \in 0..((a \div b) + 1) :
    /\ k * b >= a
    /\ \A j \in 0..(k - 1) : j * b < a
SafeCapacity(o, interval) ==
  LET n == o.maxRequestsPerRateLimitTick
             - 2 * LeastMultiple(o.rateLimitResetInterval, interval)
  IN IF n > 0 THEN n ELSE 0
C12_SafeCapacity ==
  /\ bucket.limit = SafeCapacity(scope.ratelimitOptions, DefaultInterval)
  /\ bucket.limit >= 0
  /\ scope.ratelimitOptions = DefaultRatelimit => bucket.limit = 116
  /\ task.ev = "calculate" =>
       /\ ret = SafeCapacity(scope.ratelimitOptions, heart.interval)
       /\ ret >= 0
\* a shard constructed with 6 / 60000 has capacity 6 - 2 * 2; a call after
\* Hello stored 41250 rounds 60000 / 41250 up to 2 and returns the same
C12_Witness ==
  /\ task.ev = "calculate"
  /\ heart.interval = 41250
  /\ scope.ratelimitOptions.rateLimitResetInterval = 60000
  /\ scope.ratelimitOptions.maxRequestsPerRateLimitTick = 6
  /\ ret = 2
  /\ bucket.limit = 2

\* C13: every Dispatch packet the shard receives (Ready and Resumed included)
\* is handed to handlePayload exactly once, with the shard's id, in the task
\* that received it, and nothing else is handed over: the calls are in the
\* order the frames arrived.
C13_DispatchForwardedOnce ==
  fwd = IF IsPacket(task, {"Dispatch"}) THEN <<[id |-> ShardId, packet |-> task.p]>>
        ELSE <<>>
\* a Ready that also released a parked call
C13_Witness ==
  /\ IsPacket(task, {"Dispatch"})
  /\ task.p.t = "READY"
  /\ Len(out) > 0
  /\ Len(fwd) = 1
  /\ fwd[1].packet.sid = data.session_id

\* C14 as stated: a connect() called while the socket is open creates no
\* socket and changes nothing of the session, the heartbeat or its timer,
\* whenever it passes the gate.
Untouched ==
  /\ websocket' = websocket
  /\ stale' = stale
  /\ data' = data
  /\ heart' = heart
  /\ timers' = timers
C14_CalledWhileOpen ==
  [][task'.ev = "gate" /\ Head(called) => Untouched]_vars
\* C14: a connect() that finds the socket open when it passes the gate
\* creates no socket, keeps this.websocket, and leaves the session, the
\* heartbeat state and the armed timer as they were.
C14_OpenAtGate ==
  [][task'.ev = "gate" /\ IsOpen(State) => Untouched]_vars
\* a connect() called and let through while the socket is open with its
\* timer armed
C14_Witness ==
  /\ task.ev = "gate"
  /\ websocket = Open
  /\ timers # {}
  /\ data.session_id # Undefined
  /\ gate = 0

\* C15: the connect() calls of any two shards pass the connect gate at
\* moments at least the spacing delay apart, and in the order of their wait()
\* calls.
C15_SharedGate ==
  \A i, j \in 1..Len(fleet.passed) :
    i < j =>
      /\ fleet.passed[i].call < fleet.passed[j].call
      /\ fleet.passed[i].shard # fleet.passed[j].shard =>
           fleet.passed[j].at - fleet.passed[i].at >= Spacing
\* two shards pass at the same moment
C15_Witness ==
  \E i, j \in 1..Len(fleet.passed) :
    /\ fleet.passed[i].shard # fleet.passed[j].shard
    /\ fleet.passed[i].at = fleet.passed[j].at

\* the heartbeat frames a task transmitted
Beats(o) == {i \in Written(o, {"Heartbeat"}) : o[i].tx}
\* C16 as stated: after a task that transmitted a heartbeat, requested or
\* not, the acknowledgement is pending, the send time is recorded and the
\* frame carries the current resume_seq (null if none).
C16_EveryBeatMarksPending ==
  Beats(out) # {} =>
    /\ ~heart.ack
    /\ beat
    /\ \A i \in Beats(out) : out[i].frame.seq = data.resume_seq
\* C16: a task that transmits a heartbeat records the send time and the frame
\* carries the current resume_seq (null if none); an unrequested heartbeat
\* leaves the acknowledgement pending, one requested by the Heartbeat opcode
\* leaves ack as it was.
C16_UnrequestedBeatMarksPending ==
  [][Beats(out') # {} =>
       /\ beat'
       /\ \A i \in Beats(out') : out'[i].frame.seq = data'.resume_seq
       /\ IF IsPacket(task', {"Heartbeat"})
          THEN heart'.ack = heart.ack
          ELSE ~heart'.ack]_vars
\* a heartbeat requested by the gateway, transmitted with a sequence number
\* while the last heartbeat is acknowledged
C16_Witness ==
  /\ IsPacket(task, {"Heartbeat"})
  /\ Beats(out) # {}
  /\ out[1].frame.seq \in SeqVals
  /\ beat
  /\ heart.ack

\* C17: on InvalidSession(true) a resumable shard sends Resume; one that is
\* not resumable reports the protocol violation and sends neither Resume nor
\* Identify; on InvalidSession(false) the session id is unset and the sequence
\* reset, the shard is not resumable, and Identify is sent.
Unexpected == "This is a completely unexpected error message."
C17_InvalidSession ==
  IsPacket(task, {"InvalidSession"}) =>
    IF task.p.d
    THEN IF Resumable(State)
         THEN out = <<Sent(ResumeFrame(State), TRUE)>>
         ELSE /\ thrown = Unexpected
              /\ Written(out, AuthOps) = {}
    ELSE /\ data.session_id = Undefined
         /\ data.resume_seq \notin SeqVals
         /\ ~Resumable(State)
         /\ out = <<Sent(IdentifyFrame, TRUE)>>
\* InvalidSession(true) before any Ready, handled by a shard without a
\* logger: nothing is reported and nothing is sent
C17_Witness ==
  /\ IsPacket(task, {"InvalidSession"})
  /\ task.p.d
  /\ ~Resumable(State)
  /\ ~debug
  /\ thrown = Undefined
  /\ out = <<>>

\* C18: after a Ready or Resumed is handled no call waits in
\* offlineSendQueue any more and the queue is empty, so that a later Ready or
\* Resumed finds nothing released before and the queue does not grow from one
\* connection to the next.
Flushing(e) == IsPacket(e, {"Dispatch"}) /\ e.p.t \in {"READY", "RESUMED"}
C18_QueueEmptyAfterFlush ==
  Flushing(task) =>
    /\ Pending = {}
    /\ offlineSendQueue = <<>>
\* a Ready released a parked send: its frame is written, its resolver is
\* still in the queue
C18_Witness ==
  /\ Flushing(task)
  /\ Parked(out) # {}
  /\ Pending = {}
  /\ Len(offlineSendQueue) > 0

\* C19: the task of a close event with code 3000 (Shutdown) cancels the
\* heartbeat timer and does nothing else: no connect() call, no new socket,
\* nothing written or reported, and session_id, resume_gateway_url and
\* resume_seq as before.
C19_ShutdownCloseOnlyCancels ==
  [][IsClose(task', {"shutdown"}) =>
       /\ data' = data
       /\ conn' = <<>>
       /\ gate' = gate
       /\ out' = <<>>
       /\ thrown' = Undefined
       /\ websocket' = IF task'.from = "ws" THEN Closed ELSE websocket
       /\ \A k \in StaleKinds : stale'[k] <= stale[k]
       /\ offlineSendQueue' = offlineSendQueue
       /\ timers' = {}
       /\ heart' = [heart EXCEPT !.nodeInterval = 0]]_vars
\* the close event that follows disconnect() on a connection that had a
\* session and a timer: the socket is closed, the session is kept
C19_Witness ==
  /\ IsClose(task, {"shutdown"})
  /\ task.from = "ws"
  /\ websocket = Closed
  /\ data.session_id # Undefined
  /\ data.resume_seq \in SeqVals
  /\ gate = 0
  /\ timers = {}

\* C20: a heartbeat timer is armed only while this.websocket is open: close()
\* and the close event cancel it, and none is armed again before a Hello is
\* handled on an open socket; in particular none is armed after a Hello whose
\* heartbeat closed the socket as zombied.
C20_NoTimerUnlessOpen ==
  timers # {} => websocket = Open
\* after a Hello whose heartbeat closed the shard's socket with 3010 the
\* timer is armed on the closing socket
C20_Witness ==
  /\ IsPacket(task, {"Hello"})
  /\ task.from = "ws"
  /\ websocket = Closing(ZombiedConnection)
  /\ \E t \in timers : t.id = heart.nodeInterval /\ t.interval = task.p.i

\* C21: of the sockets the shard created and that still have their handlers,
\* at most one is connecting or open: a connect() that passes the gate while
\* an earlier socket is still connecting creates no second one.
Live(sock) == IF sock.readyState \in {"connecting", "open"} THEN 1 ELSE 0
C21_OneLiveSocket ==
  Live(websocket) + stale[Connecting] + stale[Open] <= 1
\* a second connect() passed the gate while the first socket was connecting:
\* both sockets are connecting, both with the shard's handlers
C21_Witness ==
  /\ task.ev = "gate"
  /\ websocket = Connecting
  /\ stale[Connecting] = 1

\* C22: the close event of a replaced socket leaves the current connection
\* alone: the armed heartbeat timer and the heartbeat state stay, this.websocket
\* is neither closed nor replaced, no connect() is called, and the session
\* state is kept.
C22_LateCloseIsIgnored ==
  [][task'.ev = "close" /\ task'.from = "stale" =>
       /\ timers' = timers
       /\ heart' = heart
       /\ websocket' = websocket
       /\ conn' = <<>>
       /\ gate' = gate
       /\ data' = data]_vars
\* the socket closed by reconnect() reports its close with 3000 after the new
\* socket opened and sent its heartbeat: the new connection is left open with
\* a heartbeat pending and no timer
C22_Witness ==
  /\ IsClose(task, {"shutdown"})
  /\ task.from = "stale"
  /\ websocket = Open
  /\ ~heart.ack
  /\ timers = {}

\* C23: the open event of this.websocket sets ack; and on a socket opened
\* after a close with the zombie code, the first Hello finds ack set: its
\* heartbeat is transmitted and the socket is not closed as zombied again.
C23_NoZombieLoop ==
  [][/\ task'.ev = "open" /\ task'.from = "ws" => heart'.ack
     /\ IsPacket(task', {"Hello"}) /\ task'.from = "ws" /\ hellos = 0 /\ zombied = "after" =>
          /\ Beats(out') # {}
          /\ websocket' = Open]_vars
\* the first Hello of the socket opened after a zombie close closes it with
\* the zombie code again
C23_Witness ==
  /\ IsPacket(task, {"Hello"})
  /\ task.from = "ws"
  /\ hellos = 1
  /\ zombied = "again"
  /\ websocket = Closing(ZombiedConnection)
  /\ out = <<>>

\* the frames that go through send(): user messages, Identify and Resume
SendOps == {"User", "Identify", "Resume"}
\* a send() call is named by the opcode of its message and, for a user
\* message, its number
SendCalls == {<<"Identify", 0>>, <<"Resume", 0>>} \cup {<<"User", n>> : n \in 1..MaxSends}
\* the call waits in offlineSendQueue
Waits(c) ==
  \E q \in Pending : /\ offlineSendQueue[q].m.frame.op = c[1]
                     /\ offlineSendQueue[q].m.frame.id = c[2]
\* the frame of the call, after its wait, was taken by an open socket
Wrote(c) ==
  \E i \in Parked(out) : /\ out[i].frame.op = c[1]
                          /\ out[i].frame.id = c[2]
                          /\ out[i].tx
\* the last task handled a Ready or Resumed received on this.websocket
Released == Flushing(task) /\ task.from = "ws"

\* C24: no queued message is lost, and none is written to a socket that is
\* not open.  (1) Every send() call that waits in offlineSendQueue has its
\* frame written to an open socket if a Ready or Resumed is received later.
\* (2) The task of a Ready or Resumed writes to the open socket one frame for
\* each call that waited, and leaves none waiting.  (3) Every frame that
\* send() hands to the socket is handed to an open socket: none to a closing
\* or closed one, and send() never throws on a connecting one (the only
\* InvalidStateError is the one of heartbeat()).
C24_NoQueuedMessageLost ==
  /\ \A c \in SendCalls : [](Waits(c) /\ <>Released => <>Wrote(c))
  /\ [][Flushing(task') =>
          /\ Cardinality({i \in Parked(out') : out'[i].tx}) = Cardinality(Pending)
          /\ \A q \in 1..Len(offlineSendQueue') : offlineSendQueue'[q].done]_vars
  /\ [](/\ \A i \in Written(out, SendOps) : out[i].tx
        /\ thrown = "InvalidStateError" => beat /\ Written(out, SendOps) = {})
\* send() found the socket open at both checks, disconnect() closed it before
\* the write: the frame was handed to the closing socket, which drops it, and
\* the call waits nowhere
C24_Witness ==
  /\ task = Event("send", "caller")
  /\ websocket = Closing(Shutdown)
  /\ \E i \in Written(out, {"User"}) : ~out[i].tx /\ ~out[i].parked
  /\ Pending = {}

====
